---- MODULE Spec2Model ----
(***************************************************************************)
(* Model of the CLARA front end: the chat interface (ChatInterface with    *)
(* the Dify client it calls and the App shell that mounts it) and the      *)
(* service worker's cache policies.                                        *)
(*                                                                         *)
(* Strings are sequences of tokens, so that trim() and includes() are      *)
(* computed, not assumed.  A React state update followed by the effects    *)
(* that depend on it is one step: the save-session effect is part of every *)
(* action that changes conversationId or messages.                         *)
(***************************************************************************)
EXTENDS Integers, Sequences, FiniteSets, TLC

\* ------------------------------------------------------------------ bounds
MaxClock == 1      \* Date.now() ranges over 0..MaxClock
MaxSends == 2      \* accepted sends over a run
MaxFiles == 2      \* pending files, and uploads in flight, at a time

\* ------------------------------------------------------------ chat values
Null == "null"
\* an optional field: undefined, or a defined value
Undefined == [defined |-> FALSE, value |-> <<>>]
Defined(v) == [defined |-> TRUE, value |-> v]
\* a local-storage entry: absent (getItem returns null), or holding a string
NoConv == [present |-> FALSE, value |-> ""]
NoMsgs == [present |-> FALSE, value |-> [json |-> <<>>]]
Item(v) == [present |-> TRUE, value |-> v]

Modes == {"research", "scribe"}
ConvIds == {"c1", "c2"}
Answers == {<<"ans">>}
FileTypes == {"image", "audio", "video"}
ServerFileIds == {1}

\* the texts a user can type or a suggestion can carry
Texts == {<<>>, <<" ">>, <<"a">>}

VARIABLES
  view,            \* App.state.currentView
  messages,        \* ChatInterface state
  inputValue,
  isLoading,
  conversationId,
  files,
  localStorage,    \* [mode -> [conv, msgs]]: clara_conv_<mode>, clara_msgs_<mode>
  now,             \* the value Date.now() returns
  initPc,          \* position of initSession: "none", "params", "paramsBody",
                   \* "history", "done"
  send,            \* the sendMessageToDify call in flight, with what its closure captured
  uploads,         \* the uploadFileToDify calls in flight: [id: tempId, k: call]
  reloading,       \* window.location.reload() was called, the page is not yet unloaded
  lastOp,          \* the session handler or continuation that ran last, or "other"
  nSends

chatVars == <<view, messages, inputValue, isLoading, conversationId, files,
              localStorage, now, initPc, send, uploads, reloading, lastOp,
              nSends>>

\* service worker
VARIABLES
  swState,         \* "parsed", "installed", "activated", "redundant"
  cacheStore,      \* CacheStorage: [cache name -> [exists, entries: url -> response]]
  events           \* the fetch events being handled, and the last one of each slot

swVars == <<swState, cacheStore, events>>

\* Dify client
VARIABLES
  call,            \* the sendMessageToDify call: its position, timer and locals
  net,             \* the response body the server streams, and what is left of it
  orphaned,        \* requests still pending whose ChatInterface was unmounted
  historyCall      \* the last fetchHistory call: what the server sent, what it returned

callVars == <<call, net, orphaned, historyCall>>

\* Pulse interface
VARIABLE
  pulse            \* the live audio session: refs, callbacks pending, buffers sent

\* ----------------------------------------------------------- pure helpers
RECURSIVE TrimStart(_)
TrimStart(s) ==
  IF s = <<>> THEN <<>>
  ELSE IF Head(s) = " " THEN TrimStart(Tail(s)) ELSE s

RECURSIVE TrimEnd(_)
TrimEnd(s) ==
  IF s = <<>> THEN <<>>
  ELSE IF s[Len(s)] = " " THEN TrimEnd(SubSeq(s, 1, Len(s) - 1)) ELSE s

\* String.prototype.trim
Trim(s) == TrimEnd(TrimStart(s))

\* Date.now().toString() used as an identifier
TsId(t) == [kind |-> "ts", n |-> t]
RawId(k) == [kind |-> "raw", n |-> k]
WelcomeId == [kind |-> "welcome", n |-> 0]

MsgKeys == {"id", "role", "content", "files"}
OptionalKeys == {"files"}
IsUndefined(m, k) == k \in OptionalKeys /\ ~m[k].defined

\* JSON.stringify of one message: keys whose value is undefined are dropped
StringifyMsg(m) ==
  [k \in {x \in MsgKeys : ~IsUndefined(m, x)} |-> m[k]]

\* JSON.parse of one message: a key that is not there reads as undefined
ParseMsg(s) ==
  [k \in MsgKeys |-> IF k \in DOMAIN s THEN s[k] ELSE Undefined]

JSONstringify(msgs) ==
  [json |-> [i \in 1..Len(msgs) |-> StringifyMsg(msgs[i])]]

JSONparse(str) ==
  [i \in 1..Len(str.json) |-> ParseMsg(str.json[i])]

EmptyStore == [conv |-> NoConv, msgs |-> NoMsgs]

\* variant: the messages saved only inside the conversation test
SaveSessionNested(store, mode, conv, msgs) ==
  IF conv # Null
  THEN LET s1 == [store EXCEPT ![mode].conv = Item(conv)]
       IN IF Len(msgs) > 0
          THEN [s1 EXCEPT ![mode].msgs = Item(JSONstringify(msgs))]
          ELSE s1
  ELSE store

\* the save-session effect, run after a render that changed its dependencies
SaveSession(store, mode, conv, msgs) ==
  LET s1 == IF conv # Null
            THEN [store EXCEPT ![mode].conv = Item(conv)]
            ELSE store
  IN IF Len(msgs) > 0
     THEN [s1 EXCEPT ![mode].msgs = Item(JSONstringify(msgs))]
     ELSE s1

IdleSend == [pc |-> "idle", query |-> <<>>, files |-> <<>>, conv |-> Null]

\* ------------------------------------------------------- message builders
\* variant: the user entry built after the pending files were cleared
UserMsgNoFiles(text, pending, t) ==
  [id |-> TsId(t), role |-> "user", content |-> text, files |-> Defined(<<>>)]

\* handleSendMessage: userMsg
UserMsg(text, pending, t) ==
  [id |-> TsId(t), role |-> "user", content |-> text, files |-> Defined(pending)]

\* sendMessageToDify's return value, from what the stream carried:
\* answered = some 'message' event arrived, with its id, answer and conversation
DifyResponse(answered, srvId, answer, srvConv, reqConv, t) ==
  IF answered
  THEN [id |-> RawId(srvId), answer |-> answer, conversation_id |-> srvConv]
  ELSE [id |-> TsId(t), answer |-> <<>>, conversation_id |-> reqConv]

\* handleSendMessage: botMsg
BotMsg(response) ==
  [id |-> response.id, role |-> "assistant", content |-> response.answer,
   files |-> Undefined]

\* handleSendMessage: the text of the system entry
ErrorContent(errMessage) ==
  <<"Error: ",
    IF errMessage # "" THEN errMessage ELSE "Could not reach Neural Core.",
    " Please retry.">>

\* variant: the error shown as an answer of the assistant
ErrorMsgAsAssistant(errMessage, t) ==
  [id |-> TsId(t), role |-> "assistant", content |-> ErrorContent(errMessage),
   files |-> Undefined]

\* handleSendMessage: errorMsg
ErrorMsg(errMessage, t) ==
  [id |-> TsId(t), role |-> "system", content |-> ErrorContent(errMessage),
   files |-> Undefined]

\* initSession: welcomeMsg
WelcomeMsg ==
  [id |-> WelcomeId, role |-> "assistant", content |-> <<"opening">>,
   files |-> Undefined]

\* initSession: welcomeMsg with the opening statement of fetchAppParams's
\* fallback defaults
WelcomeMsgFallback ==
  [id |-> WelcomeId, role |-> "assistant", content |-> <<"System Online.">>,
   files |-> Undefined]

\* what sendMessageToDify can reject with: a network error, a non-OK response
\* (with or without a message in its body), a timeout
ErrorMessages == {"Failed to fetch", ""}

\* fetchHistory: the entries one server item yields
HistoryEntries(item) ==
  <<[id |-> [kind |-> "u", n |-> item.id], role |-> "user",
     content |-> item.query, files |-> Undefined]>>
  \o (IF item.answer # <<>>
      THEN <<[id |-> [kind |-> "a", n |-> item.id], role |-> "assistant",
              content |-> item.answer, files |-> Undefined]>>
      ELSE <<>>)

\* variant: the loop over data.data, first item first
RECURSIVE MapHistoryInOrder(_)
MapHistoryInOrder(data) ==
  IF data = <<>> THEN <<>>
  ELSE HistoryEntries(data[1]) \o MapHistoryInOrder(Tail(data))

\* fetchHistory: the loop over data.data, last item first
RECURSIVE MapHistory(_)
MapHistory(data) ==
  IF data = <<>> THEN <<>>
  ELSE HistoryEntries(data[Len(data)]) \o MapHistory(SubSeq(data, 1, Len(data) - 1))

HistoryItem(id, answer) == [id |-> id, query |-> <<"a">>, answer |-> answer]

\* what GET /messages can answer: no item, one item without an answer, two
\* items (newest first) of which the older has no answer or both have one
HistoryData ==
  { <<>>,
    <<HistoryItem(1, <<>>)>>,
    <<HistoryItem(2, <<"ans">>), HistoryItem(1, <<>>)>>,
    <<HistoryItem(2, <<"ans">>), HistoryItem(1, <<"ans">>)>> }

\* fetchHistory: the mapped list, or [] on a non-OK response or any error
FetchHistory(ok, data) == IF ok THEN MapHistory(data) ELSE <<>>

MaxItems == 3      \* items of a GET /messages answer, and their ids

\* what GET /messages can answer within the bound
HistoryAnswers ==
  UNION { [1..n -> { HistoryItem(id, answer) :
                       id \in 1..MaxItems, answer \in {<<>>, <<"ans">>} }] :
          n \in 0..MaxItems }

\* how a GET /messages request ends: an OK response with a readable body, a
\* non-OK response, or an error (network, timeout, unreadable body)
HistoryOutcomes == {"ok", "notOk", "error"}

\* no fetchHistory call was made
NoHistory == [called |-> FALSE, outcome |-> "ok", data |-> <<>>, result |-> <<>>]

\* -------------------------------------------------------- Pulse interface
MaxBuffers == 3    \* audio buffers captured over a run
MaxSessions == 2   \* startSession calls over a run

Sessions == 1..MaxSessions

MaxMessages == 3   \* server messages handled over a run
MaxDuration == 1   \* longest audio chunk, in units of the audio clock
MaxTime == 1       \* last reading of the audio clock

\* PulseInterface before startSession.  The k-th startSession call makes
\* session k, its script processor k and its pair of audio contexts k.
\* mounted: the component is on screen; started: startSession calls so far;
\* conn[k]: the live connection of session k; handed[k]: stopSession has asked
\* session k to close; sessionRef, activeSessionRef, processorRef, contextRef:
\* the refs (0 is null; contextRef stands for inputContextRef and
\* outputContextRef, always set together); processors: the script processors
\* still connected; contexts: the context pairs still open;
\* stopped: stopSession has run since the last startSession;
\* stored: on-open has stored the session; ended: on-close, on-error or
\* stopSession has run since; sent, dropped: buffers passed to
\* sendRealtimeInput, buffers let go.
\* currentTime[k]: outputCtx.currentTime of context k;
\* nextStartTime, sources, userAcc, modelAcc: the refs of the same name, a
\* source being its context, its start and end time there, and its number;
\* made: sources made so far; stopCalls: how many sources stop() was called
\* on whose 'ended' event is pending; msgs: messages handled so far;
\* interrupted: the last of them carried the interrupted flag
IdlePulse ==
  [mounted |-> TRUE, started |-> 0,
   conn |-> [k \in Sessions |-> "none"], handed |-> [k \in Sessions |-> FALSE],
   sessionRef |-> 0, activeSessionRef |-> 0, processorRef |-> 0,
   contextRef |-> 0, processors |-> {}, contexts |-> {},
   isConnected |-> FALSE, stopped |-> FALSE, stored |-> FALSE,
   ended |-> FALSE, sent |-> 0, dropped |-> 0,
   currentTime |-> [k \in Sessions |-> 0], nextStartTime |-> 0,
   sources |-> {}, made |-> 0, stopCalls |-> 0,
   isTalking |-> FALSE, userAcc |-> <<>>, modelAcc |-> <<>>,
   userTranscript |-> <<>>, modelTranscript |-> <<>>, msgs |-> 0,
   interrupted |-> FALSE]

\* a useState setter: it changes nothing once the component is unmounted
setState(p, field, value) ==
  IF p.mounted THEN [p EXCEPT ![field] = value] ELSE p

\* startSession, offered by the start button whenever isConnected is false:
\* the audio contexts are made and stored; with the microphone granted, the
\* script processor is made and stored, the connection requested, its promise
\* stored and onaudioprocess installed; without it, nothing more is started
startSession(micGranted) ==
  /\ UNCHANGED <<chatVars, swVars, callVars>>
  /\ pulse.mounted
  /\ ~pulse.isConnected
  /\ pulse.started < MaxSessions
  /\ LET k == pulse.started + 1
         ctx == [pulse EXCEPT !.started = k,
                              !.contexts = pulse.contexts \cup {k},
                              !.contextRef = k,
                              !.stopped = FALSE]
     IN pulse' = IF micGranted
                 THEN [ctx EXCEPT !.processors = pulse.processors \cup {k},
                                  !.processorRef = k,
                                  !.conn[k] = "connecting",
                                  !.sessionRef = k,
                                  !.stored = FALSE, !.ended = FALSE]
                 ELSE ctx

\* callbacks.onopen of session s, with its continuation after
\* await sessionPromise; a close that stopSession asked for while the
\* connection was opening runs first, when the promise resolves
onopen(s) ==
  /\ UNCHANGED <<chatVars, swVars, callVars>>
  /\ pulse.conn[s] = "connecting"
  /\ LET a == setState(pulse, "isConnected", TRUE)
         b == setState(a, "isTalking", FALSE)
         c == setState(b, "userTranscript", <<>>)
         d == setState(c, "modelTranscript", <<>>)
     IN pulse' = [d EXCEPT !.userAcc = <<>>, !.modelAcc = <<>>,
                           !.conn[s] = IF pulse.handed[s] THEN "closing"
                                       ELSE "open",
                           !.activeSessionRef = s, !.stored = TRUE]

\* callbacks.onclose of session s
onclose(s) ==
  /\ UNCHANGED <<chatVars, swVars, callVars>>
  /\ pulse.conn[s] \in {"connecting", "open", "closing"}
  /\ pulse' = [setState(pulse, "isConnected", FALSE) EXCEPT
                 !.conn[s] = "closed", !.activeSessionRef = 0,
                 !.processorRef = 0, !.ended = TRUE]

\* callbacks.onerror of session s
onerror(s) ==
  /\ UNCHANGED <<chatVars, swVars, callVars>>
  /\ pulse.conn[s] \in {"connecting", "open"}
  /\ pulse' = [setState(pulse, "isConnected", FALSE) EXCEPT !.ended = TRUE]

\* the body of stopSession: the session of sessionRef is asked to close (at
\* once when its promise has resolved, else when it resolves), the processor
\* of processorRef is disconnected, the contexts of the context refs closed
StopSession(p) ==
  LET s == p.sessionRef
      asked == IF s = 0 THEN p
               ELSE [p EXCEPT !.handed[s] = TRUE,
                              !.conn[s] = IF p.conn[s] = "open" THEN "closing"
                                          ELSE p.conn[s]]
  IN [setState(asked, "isConnected", FALSE) EXCEPT
        !.processors = p.processors \ {p.processorRef},
        !.processorRef = 0,
        !.contexts = p.contexts \ {p.contextRef},
        !.activeSessionRef = 0, !.stopped = TRUE, !.ended = TRUE]

\* stopSession from the stop button, shown while isConnected is true
stopSession ==
  /\ UNCHANGED <<chatVars, swVars, callVars>>
  /\ pulse.mounted
  /\ pulse.isConnected
  /\ pulse' = StopSession(pulse)

\* the component unmounts (the exit button, any time): the cleanup of the
\* mount effect calls stopSession
unmount ==
  /\ UNCHANGED <<chatVars, swVars, callVars>>
  /\ pulse.mounted
  /\ pulse' = [StopSession(pulse) EXCEPT !.mounted = FALSE]

\* scriptProcessor.onaudioprocess of processor k: a buffer was captured
onaudioprocess(k) ==
  /\ UNCHANGED <<chatVars, swVars, callVars>>
  /\ k \in pulse.processors
  /\ k \in pulse.contexts
  /\ pulse.sent + pulse.dropped < MaxBuffers
  /\ pulse' = IF pulse.activeSessionRef = 0
              THEN [pulse EXCEPT !.dropped = pulse.dropped + 1]
              ELSE [pulse EXCEPT !.sent = pulse.sent + 1]

\* the text of a transcription
TranscriptionTexts == {<<"w">>}

\* an optional transcription of a server message
Transcriptions ==
  {[present |-> FALSE, text |-> <<>>]} \cup
  {[present |-> TRUE, text |-> txt] : txt \in TranscriptionTexts}

\* msg.serverContent: audio is the duration of the chunk in
\* modelTurn.parts[0].inlineData.data, 0 when there is none
Messages ==
  [inputTranscription : Transcriptions, outputTranscription : Transcriptions,
   turnComplete : BOOLEAN, audio : 0..MaxDuration, interrupted : BOOLEAN]

Max(a, b) == IF a >= b THEN a ELSE b

\* onmessage, if (content?.inputTranscription)
InputTranscription(p, content) ==
  IF content.inputTranscription.present
  THEN LET acc == p.userAcc \o content.inputTranscription.text
           a == setState(p, "modelTranscript", <<>>)
           b == [a EXCEPT !.userAcc = acc]
       IN setState(b, "userTranscript", acc)
  ELSE p

\* onmessage, if (content?.outputTranscription), but the user's transcript is
\* left on screen
OutputTranscriptionKeepsUser(p, content) ==
  IF content.outputTranscription.present
  THEN LET acc == p.modelAcc \o content.outputTranscription.text
           b == [p EXCEPT !.modelAcc = acc]
       IN setState(b, "modelTranscript", acc)
  ELSE p

\* onmessage, if (content?.outputTranscription)
OutputTranscription(p, content) ==
  IF content.outputTranscription.present
  THEN LET acc == p.modelAcc \o content.outputTranscription.text
           a == setState(p, "userTranscript", <<>>)
           b == [a EXCEPT !.modelAcc = acc]
       IN setState(b, "modelTranscript", acc)
  ELSE p

\* onmessage, if (content?.turnComplete)
TurnComplete(p, content) ==
  IF content.turnComplete
  THEN [p EXCEPT !.userAcc = <<>>, !.modelAcc = <<>>]
  ELSE p

\* onmessage of session s, if (base64Audio): the chunk is started on the
\* output context of session s at the cursor, or now if the cursor is past
AudioOutput(p, s, content) ==
  IF content.audio > 0
  THEN LET start == Max(p.nextStartTime, p.currentTime[s])
           source == [ctx |-> s, start |-> start,
                      end |-> start + content.audio, n |-> p.made + 1]
       IN [setState(p, "isTalking", TRUE) EXCEPT
             !.nextStartTime = start + content.audio,
             !.sources = p.sources \cup {source},
             !.made = p.made + 1]
  ELSE p

\* onmessage, if (content?.interrupted), but the cursor is left where it was
InterruptedKeepsCursor(p, content) ==
  IF content.interrupted
  THEN [setState(p, "isTalking", FALSE) EXCEPT
          !.stopCalls = p.stopCalls + Cardinality(p.sources),
          !.sources = {},
          !.userAcc = <<>>, !.modelAcc = <<>>]
  ELSE p

\* onmessage, if (content?.interrupted)
Interrupted(p, content) ==
  IF content.interrupted
  THEN [setState(p, "isTalking", FALSE) EXCEPT
          !.stopCalls = p.stopCalls + Cardinality(p.sources),
          !.sources = {}, !.nextStartTime = 0,
          !.userAcc = <<>>, !.modelAcc = <<>>]
  ELSE p

\* callbacks.onmessage of session s; decodeAudioData, the one call it awaits,
\* awaits nothing itself
onmessage(s, content) ==
  /\ UNCHANGED <<chatVars, swVars, callVars>>
  /\ pulse.conn[s] \in {"open", "closing"}
  /\ pulse.msgs < MaxMessages
  /\ LET a == InputTranscription(pulse, content)
         b == OutputTranscription(a, content)
         c == TurnComplete(b, content)
         d == AudioOutput(c, s, content)
         e == Interrupted(d, content)
     IN pulse' = [e EXCEPT !.msgs = pulse.msgs + 1,
                           !.interrupted = content.interrupted]

\* the 'ended' listener of a source that has played to its end on an open
\* context
ended(source) ==
  /\ UNCHANGED <<chatVars, swVars, callVars>>
  /\ source \in pulse.sources
  /\ source.ctx \in pulse.contexts
  /\ pulse.currentTime[source.ctx] >= source.end
  /\ LET left == pulse.sources \ {source}
         p == [pulse EXCEPT !.sources = left]
     IN pulse' = IF left = {} THEN setState(p, "isTalking", FALSE) ELSE p

\* the 'ended' listener of a source stop() was called on, which the
\* interruption had taken out of the set already
endedStopped ==
  /\ UNCHANGED <<chatVars, swVars, callVars>>
  /\ pulse.stopCalls > 0
  /\ LET p == [pulse EXCEPT !.stopCalls = pulse.stopCalls - 1]
     IN pulse' = IF pulse.sources = {} THEN setState(p, "isTalking", FALSE)
                 ELSE p

\* the audio clock advances: every open context's currentTime with it
AudioClock ==
  /\ UNCHANGED <<chatVars, swVars, callVars>>
  /\ pulse.contexts # {}
  /\ \A k \in pulse.contexts : pulse.currentTime[k] < MaxTime
  /\ pulse' = [pulse EXCEPT !.currentTime =
                 [k \in Sessions |-> IF k \in pulse.contexts
                                     THEN pulse.currentTime[k] + 1
                                     ELSE pulse.currentTime[k]]]

\* ------------------------------------------------------------ Dify client
MaxLines == 2      \* lines of a response stream

\* handleSendMessage: difyFiles
DifyFiles(userFiles) ==
  [i \in 1..Len(userFiles) |->
     [type |-> userFiles[i].type, upload_file_id |-> userFiles[i].id]]

\* sendMessageToDify: the default prompt for a blank query with files
DefaultPrompt(fileTypes) ==
  IF "image" \in fileTypes THEN <<"Please analyze the attached image.">>
  ELSE IF "audio" \in fileTypes
       THEN <<"Please transcribe and analyze the attached audio.">>
       ELSE <<"Please analyze the attached document.">>

\* variant: the query tested without trim()
FinalQueryNoTrim(query, difyFiles) ==
  IF query = <<>> /\ Len(difyFiles) > 0
  THEN DefaultPrompt({difyFiles[i].type : i \in 1..Len(difyFiles)})
  ELSE query

\* sendMessageToDify: finalQuery
FinalQuery(query, difyFiles) ==
  IF Trim(query) = <<>> /\ Len(difyFiles) > 0
  THEN DefaultPrompt({difyFiles[i].type : i \in 1..Len(difyFiles)})
  ELSE query

\* variant: every request opens a new conversation
RequestBodyNewConversation(query, conv, difyFiles) ==
  [query |-> FinalQuery(query, difyFiles),
   conversation_id |-> "",
   files |-> [i \in 1..Len(difyFiles) |-> difyFiles[i].upload_file_id]]

\* sendMessageToDify: body
RequestBody(query, conv, difyFiles) ==
  [query |-> FinalQuery(query, difyFiles),
   conversation_id |-> IF conv # Null THEN conv ELSE "",
   files |-> [i \in 1..Len(difyFiles) |-> difyFiles[i].upload_file_id]]

NoBody == [query |-> <<>>, conversation_id |-> "", files |-> <<>>]

\* no call was made, or the component that made it is gone
IdleCall ==
  [pc |-> "idle", fetch |-> "none", timer |-> "none", aborted |-> FALSE,
   body |-> NoBody,
   buffer |-> <<>>, fullAnswer |-> <<>>, answered |-> FALSE,
   resultConversationId |-> Null, error |-> ""]

\* split: some chunk ended in the middle of a line
NoStream == [lines |-> <<>>, terminated |-> TRUE, rest |-> <<>>, split |-> FALSE]

\* sendMessageToDify up to the fetch inside fetchWithTimeout: the body is
\* built, the timer armed, the request sent
StartCall(query, conv, difyFiles) ==
  [IdleCall EXCEPT !.pc = "fetch",
                   !.fetch = "pending",
                   !.timer = "armed",
                   !.body = RequestBody(query, conv, difyFiles),
                   !.resultConversationId = conv]

\* the call as handleSendMessage's continuation finds it: ended, its timer
\* no longer armed
CallEnded(c, how) ==
  [c EXCEPT !.pc = how,
            !.fetch = IF c.fetch = "pending" THEN "response" ELSE c.fetch,
            !.timer = IF c.timer = "armed" THEN "cleared" ELSE c.timer]

\* -------------------------------------------------------- chat interface
Mounted == view \in Modes


\* a ChatInterface that is not mounted, or was just constructed
FreshComponent ==
  /\ messages' = <<>>
  /\ inputValue' = <<>>
  /\ isLoading' = FALSE
  /\ conversationId' = Null
  /\ files' = <<>>
  /\ initPc' = "none"
  /\ send' = IdleSend
  /\ uploads' = {}
  /\ call' = IdleCall
  /\ net' = NoStream

\* App.handleSelectModule: mounts ChatInterface, whose effect starts initSession
\* (setIsLoading(true), then the parameters request)
handleSelectModule(m) ==
  /\ UNCHANGED <<swVars, callVars, pulse>>
  /\ view = "landing"
  /\ view' = m
  /\ isLoading' = TRUE
  /\ initPc' = "params"
  /\ lastOp' = "other"
  /\ UNCHANGED <<messages, inputValue, conversationId, files, localStorage,
                 now, send, uploads, reloading, nSends>>

\* App.handleExit: unmounts ChatInterface; what its pending calls set later is
\* lost, but a request it sent is not aborted and stays pending
handleExit ==
  /\ UNCHANGED <<swVars, pulse>>
  /\ Mounted
  /\ view' = "landing"
  /\ FreshComponent
  /\ orphaned' = IF send.pc = "inflight" THEN orphaned + 1 ELSE orphaned
  /\ UNCHANGED historyCall
  /\ lastOp' = "other"
  /\ UNCHANGED <<localStorage, now, reloading, nSends>>

\* fetchAppParams: the response arrived with an OK status, fetchWithTimeout
\* cleared its timer and returned; response.json() reads the body
fetchAppParamsResponse ==
  /\ UNCHANGED <<swVars, callVars, pulse>>
  /\ Mounted
  /\ initPc = "params"
  /\ initPc' = "paramsBody"
  /\ lastOp' = "other"
  /\ UNCHANGED <<view, messages, inputValue, isLoading, conversationId, files,
                 localStorage, now, send, uploads, reloading, nSends>>

\* initSession after fetchAppParams returned (it never rejects): the saved
\* conversation is resumed, or the welcome message is shown
InitSession(welcomeMsg) ==
  /\ UNCHANGED <<swVars, callVars, pulse>>
  /\ Mounted
  /\ initPc \in {"params", "paramsBody"}
  /\ LET savedConvId == localStorage[view].conv IN
     IF savedConvId.present
     THEN /\ conversationId' = savedConvId.value
          /\ initPc' = "history"
          /\ localStorage' = SaveSession(localStorage, view, savedConvId.value, messages)
          /\ UNCHANGED <<messages, isLoading>>
     ELSE /\ messages' = <<welcomeMsg>>
          /\ isLoading' = FALSE
          /\ initPc' = "done"
          /\ localStorage' = SaveSession(localStorage, view, conversationId, <<welcomeMsg>>)
          /\ UNCHANGED conversationId
  /\ lastOp' = "InitParams"
  /\ UNCHANGED <<view, inputValue, files, now, send, uploads, reloading,
                 nSends>>

\* initSession continues with the parameters the server sent
InitParams == InitSession(WelcomeMsg)

\* initSession continues with the fallback defaults: fetchAppParams caught a
\* non-OK status, a network error, a timeout or a body that is not JSON
InitParamsFallback == InitSession(WelcomeMsgFallback)

\* fetchAppParams: the timer of fetchWithTimeout fires while the request is
\* pending; the timeout error is caught
InitParamsTimeout == initPc = "params" /\ InitParamsFallback

\* variant: the local copy preferred to the remote history
InitMessagesLocalFirst(history, localMsgs, current) ==
  IF localMsgs.present THEN JSONparse(localMsgs.value)
  ELSE IF Len(history) > 0 THEN history
  ELSE current

\* initSession: the message list after fetchHistory returned
InitMessages(history, localMsgs, current) ==
  IF Len(history) > 0 THEN history
  ELSE IF localMsgs.present THEN JSONparse(localMsgs.value)
  ELSE current

\* initSession after fetchHistory returned (it never rejects)
InitHistory(ok, data) ==
  /\ UNCHANGED <<swVars, callVars, pulse>>
  /\ Mounted
  /\ initPc = "history"
  /\ LET history == FetchHistory(ok, data)
         msgs == InitMessages(history, localStorage[view].msgs, messages)
     IN /\ messages' = msgs
        /\ localStorage' = SaveSession(localStorage, view, conversationId, msgs)
  /\ isLoading' = FALSE
  /\ initPc' = "done"
  /\ lastOp' = "InitHistory"
  /\ UNCHANGED <<view, inputValue, conversationId, files, now, send, uploads,
                 reloading, nSends>>

\* the textarea's onChange; the textarea is disabled while isLoading
setInputValue(t) ==
  /\ UNCHANGED <<swVars, callVars, pulse>>
  /\ Mounted
  /\ ~isLoading
  /\ inputValue' = t
  /\ lastOp' = "other"
  /\ UNCHANGED <<view, messages, isLoading, conversationId, files, localStorage,
                 now, initPc, send, uploads, reloading, nSends>>

\* variant: the text tested without trim()
SendRejectedNoTrim(text) ==
  \/ \E i \in 1..Len(files) : files[i].isUploading
  \/ (text = <<>> /\ Len(files) = 0)
  \/ isLoading

\* variant: the uploads not tested
SendRejectedWhileUploading(text) ==
  \/ (Trim(text) = <<>> /\ Len(files) = 0)
  \/ isLoading

\* handleSendMessage: the two early returns
SendRejected(text) ==
  \/ \E i \in 1..Len(files) : files[i].isUploading
  \/ (Trim(text) = <<>> /\ Len(files) = 0)
  \/ isLoading

\* the suggestions a click can send
SuggestedQuestions == {<<"a">>}

\* handleSendMessage up to its await: the guards, the user entry, the request
handleSendMessage(text) ==
  /\ UNCHANGED <<swVars, pulse>>
  /\ Mounted
  /\ IF SendRejected(text)
     THEN /\ lastOp' = "sendRejected"
          /\ UNCHANGED <<messages, inputValue, files, isLoading, send,
                         localStorage, nSends, callVars>>
     ELSE /\ nSends < MaxSends
          /\ lastOp' = "sendAccepted"
          /\ LET userMsg == UserMsg(text, files, now) IN
             /\ messages' = Append(messages, userMsg)
             /\ send' = [pc |-> "inflight", query |-> text, files |-> userMsg.files.value,
                         conv |-> conversationId]
             /\ localStorage' = SaveSession(localStorage, view, conversationId,
                                            Append(messages, userMsg))
             /\ call' = StartCall(text, conversationId, DifyFiles(userMsg.files.value))
             /\ net' = NoStream
             /\ UNCHANGED <<orphaned, historyCall>>
          /\ inputValue' = <<>>
          /\ files' = <<>>
          /\ isLoading' = TRUE
          /\ nSends' = nSends + 1
  /\ UNCHANGED <<view, conversationId, now, initPc, uploads, reloading>>

\* handleSendMessage after sendMessageToDify returned
SendSuccess(answered, answer, srvConv) ==
  /\ UNCHANGED <<swVars, pulse>>
  /\ Mounted
  /\ send.pc = "inflight"
  /\ LET response == DifyResponse(answered, nSends, answer, srvConv, send.conv, now)
         msgs == Append(messages, BotMsg(response))
     IN /\ conversationId' = response.conversation_id
        /\ messages' = msgs
        /\ localStorage' = SaveSession(localStorage, view, response.conversation_id, msgs)
  /\ isLoading' = FALSE
  /\ send' = IdleSend
  /\ call' = CallEnded(call, "returned")
  /\ UNCHANGED <<net, orphaned, historyCall>>
  /\ lastOp' = "SendSuccess"
  /\ UNCHANGED <<view, inputValue, files, now, initPc, uploads, reloading,
                 nSends>>

\* handleSendMessage after sendMessageToDify rejected: the catch block
SendFail(errMessage) ==
  /\ UNCHANGED <<swVars, pulse>>
  /\ Mounted
  /\ send.pc = "inflight"
  /\ LET msgs == Append(messages, ErrorMsg(errMessage, now)) IN
     /\ messages' = msgs
     /\ localStorage' = SaveSession(localStorage, view, conversationId, msgs)
  /\ isLoading' = FALSE
  /\ send' = IdleSend
  /\ call' = CallEnded(call, "thrown")
  /\ UNCHANGED <<net, orphaned, historyCall>>
  /\ lastOp' = "SendFail"
  /\ UNCHANGED <<view, inputValue, conversationId, files, now, initPc, uploads,
                 reloading, nSends>>

\* clearHistory: the page keeps running until the reload unloads it
clearHistory ==
  /\ UNCHANGED <<swVars, callVars, pulse>>
  /\ Mounted
  /\ localStorage' = SaveSession([localStorage EXCEPT ![view] = EmptyStore],
                                 view, Null, <<>>)
  /\ messages' = <<>>
  /\ conversationId' = Null
  /\ reloading' = TRUE
  /\ lastOp' = "clearHistory"
  /\ UNCHANGED <<view, inputValue, isLoading, files, now, initPc, send, uploads,
                 nSends>>

\* the reload started by clearHistory unloads the page: the App starts on the
\* landing view, local storage stays
Unload ==
  /\ UNCHANGED <<swVars, pulse>>
  /\ reloading
  /\ reloading' = FALSE
  /\ view' = "landing"
  /\ FreshComponent
  /\ orphaned' = 0
  /\ UNCHANGED historyCall
  /\ lastOp' = "other"
  /\ UNCHANGED <<localStorage, now, nSends>>

\* a request whose component was unmounted settles: its continuation sets the
\* state of an unmounted component, which has no effect
OrphanSettles ==
  /\ UNCHANGED <<chatVars, swVars, call, net, historyCall, pulse>>
  /\ orphaned > 0
  /\ orphaned' = orphaned - 1

\* time passes: Date.now() returns a later value
Tick ==
  /\ UNCHANGED <<swVars, callVars, pulse>>
  /\ now < MaxClock
  /\ now' = now + 1
  /\ UNCHANGED <<view, messages, inputValue, isLoading, conversationId, files,
                 localStorage, initPc, send, uploads, reloading, lastOp,
                 nSends>>

\* a name for the next uploadFileToDify call, to tell the calls in flight apart
FreeUpload ==
  CHOOSE k \in 1..MaxFiles :
    /\ \A u \in uploads : u.k # k
    /\ \A j \in 1..(k - 1) : \E u \in uploads : u.k = j

\* handleFileUpload up to its await: the entry with a temporary id
handleFileUpload(type) ==
  /\ UNCHANGED <<swVars, callVars, pulse>>
  /\ Mounted
  /\ ~isLoading
  /\ Len(files) < MaxFiles
  /\ Cardinality(uploads) < MaxFiles
  /\ files' = Append(files, [id |-> TsId(now), type |-> type, isUploading |-> TRUE])
  /\ uploads' = uploads \cup {[id |-> TsId(now), k |-> FreeUpload]}
  /\ lastOp' = "other"
  /\ UNCHANGED <<view, messages, inputValue, isLoading, conversationId,
                 localStorage, now, initPc, send, reloading, nSends>>

\* handleFileUpload after uploadFileToDify returned
UploadSuccess(u, srvId) ==
  /\ UNCHANGED <<swVars, callVars, pulse>>
  /\ Mounted
  /\ u \in uploads
  /\ files' = [i \in 1..Len(files) |->
                 IF files[i].id = u.id
                 THEN [files[i] EXCEPT !.id = [kind |-> "file", n |-> srvId],
                                       !.isUploading = FALSE]
                 ELSE files[i]]
  /\ uploads' = uploads \ {u}
  /\ lastOp' = "other"
  /\ UNCHANGED <<view, messages, inputValue, isLoading, conversationId,
                 localStorage, now, initPc, send, reloading, nSends>>

\* handleFileUpload after uploadFileToDify rejected
UploadFail(u) ==
  /\ UNCHANGED <<swVars, callVars, pulse>>
  /\ Mounted
  /\ u \in uploads
  /\ files' = SelectSeq(files, LAMBDA f : f.id # u.id)
  /\ uploads' = uploads \ {u}
  /\ lastOp' = "other"
  /\ UNCHANGED <<view, messages, inputValue, isLoading, conversationId,
                 localStorage, now, initPc, send, reloading, nSends>>

\* the remove button of a pending file, disabled while the file uploads
removeFile(i) ==
  /\ UNCHANGED <<swVars, callVars, pulse>>
  /\ Mounted
  /\ i \in 1..Len(files)
  /\ ~files[i].isUploading
  /\ files' = SelectSeq(files, LAMBDA f : f.id # files[i].id)
  /\ lastOp' = "other"
  /\ UNCHANGED <<view, messages, inputValue, isLoading, conversationId,
                 localStorage, now, initPc, send, uploads, reloading, nSends>>

\* ------------------------------------------- Dify client: the call itself
\* the first fetchHistory call, from the request to the returned list
fetchHistory(outcome, data) ==
  /\ UNCHANGED <<chatVars, swVars, pulse, call, net, orphaned>>
  /\ ~historyCall.called
  /\ historyCall' = [called |-> TRUE, outcome |-> outcome, data |-> data,
                     result |-> FetchHistory(outcome = "ok", data)]

\* the lines a response stream is made of
LineKinds == {"msgA", "agentB", "err", "end", "done", "blank", "ping"}

\* the text of a line, without its newline
Render(kind) ==
  CASE kind = "done"  -> <<"data: ", "[DONE]">>
    [] kind = "blank" -> <<>>
    [] kind = "ping"  -> <<": ping">>
    [] OTHER          -> <<"data: ", "{", kind, "}">>

\* what the JSON text of an event parses to
Event ==
  [ msgA   |-> [event |-> "message", answer |-> <<"x">>, message |-> ""],
    agentB |-> [event |-> "agent_message", answer |-> <<"y">>, message |-> ""],
    err    |-> [event |-> "error", answer |-> <<>>, message |-> "boom"],
    end    |-> [event |-> "message_end", answer |-> <<>>, message |-> ""] ]

\* the bodies a server can stream: up to MaxLines lines, the last one with or
\* without its newline
Streams ==
  { st \in [lines : UNION {[1..n -> LineKinds] : n \in 0..MaxLines},
            terminated : BOOLEAN] :
      st.lines = <<>> => st.terminated }

RECURSIVE StreamText(_, _)
StreamText(lines, terminated) ==
  IF lines = <<>> THEN <<>>
  ELSE Render(Head(lines))
       \o (IF Len(lines) > 1 \/ terminated THEN <<"\n">> ELSE <<>>)
       \o StreamText(Tail(lines), terminated)

\* buffer.split('\n')
RECURSIVE SplitLines(_)
SplitLines(buf) ==
  IF \A i \in 1..Len(buf) : buf[i] # "\n" THEN <<buf>>
  ELSE LET i == CHOOSE j \in 1..Len(buf) :
                  buf[j] = "\n" /\ \A k \in 1..(j - 1) : buf[k] # "\n"
       IN <<SubSeq(buf, 1, i - 1)>> \o SplitLines(SubSeq(buf, i + 1, Len(buf)))

\* JSON.parse(jsonStr): throws unless the text is a whole JSON value
ParseEvent(jsonStr) ==
  IF Len(jsonStr) = 3 /\ jsonStr[1] = "{" /\ jsonStr[3] = "}"
     /\ jsonStr[2] \in DOMAIN Event
  THEN [ok |-> TRUE, data |-> Event[jsonStr[2]]]
  ELSE [ok |-> FALSE, data |-> Event["end"]]

\* the conversation id the server's events carry
EventConversationId(c) ==
  IF c.body.conversation_id # "" THEN c.body.conversation_id ELSE "c1"

\* sendMessageToDify: the body of the loop over the lines of a chunk.  What is
\* thrown inside the try, by JSON.parse or for an 'error' event, is caught
\* right there and logged
ProcessLine(c, line) ==
  IF Trim(line) = <<>> THEN c
  ELSE IF Head(line) = "data: "
  THEN LET jsonStr == Tail(line) IN
       IF jsonStr = <<"[DONE]">> THEN c
       ELSE LET parsed == ParseEvent(jsonStr) IN
            IF ~parsed.ok THEN c
            ELSE IF parsed.data.event \in {"message", "agent_message"}
            THEN [c EXCEPT !.fullAnswer = c.fullAnswer \o parsed.data.answer,
                           !.resultConversationId = EventConversationId(c),
                           !.answered = TRUE]
            ELSE c
  ELSE c

RECURSIVE ProcessLines(_, _)
ProcessLines(c, lines) ==
  IF lines = <<>> THEN c
  ELSE ProcessLines(ProcessLine(c, Head(lines)), Tail(lines))

\* variant: every piece of the chunk taken as a whole line, nothing kept
ProcessChunkNoCarry(c, chunk) ==
  ProcessLines([c EXCEPT !.buffer = <<>>], SplitLines(chunk))

\* sendMessageToDify: one round of the read loop: the chunk is added to the
\* buffer, the last piece stays in the buffer, the lines before it are handled
ProcessChunk(c, chunk) ==
  LET lines == SplitLines(c.buffer \o chunk) IN
  ProcessLines([c EXCEPT !.buffer = lines[Len(lines)]],
               SubSeq(lines, 1, Len(lines) - 1))

\* variant: the timer left running
ClearTimeoutMissing(timer) == timer

\* clearTimeout(id)
ClearTimeout(timer) == IF timer = "armed" THEN "cleared" ELSE timer

\* fetchWithTimeout: the timer fires and aborts the controller; a pending
\* fetch rejects with an AbortError, which the catch turns into the timeout
\* error; a body being read fails with the AbortError itself
TimerFires ==
  /\ UNCHANGED <<chatVars, swVars, pulse, net, orphaned, historyCall>>
  /\ call.timer = "armed"
  /\ call' =
       IF call.pc = "fetch"
       THEN [call EXCEPT !.timer = "fired", !.aborted = TRUE, !.pc = "thrown",
                         !.fetch = "timeout", !.error = "Request timed out"]
       ELSE IF call.pc = "read"
       THEN [call EXCEPT !.timer = "fired", !.aborted = TRUE, !.pc = "thrown",
                         !.error = "The user aborted a request."]
       ELSE [call EXCEPT !.timer = "fired", !.aborted = TRUE]

\* fetchWithTimeout returns the response; sendMessageToDify throws on a non-OK
\* status and otherwise starts reading the body
FetchResponse(ok, st) ==
  /\ UNCHANGED <<chatVars, swVars, pulse, orphaned, historyCall>>
  /\ call.pc = "fetch"
  /\ IF ok
     THEN /\ call' = [call EXCEPT !.timer = ClearTimeout(call.timer),
                                  !.fetch = "response", !.pc = "read"]
          /\ net' = [lines |-> st.lines, terminated |-> st.terminated,
                     rest |-> StreamText(st.lines, st.terminated), split |-> FALSE]
     ELSE /\ call' = [call EXCEPT !.timer = ClearTimeout(call.timer),
                                  !.fetch = "response", !.pc = "thrown",
                                  !.error = "Failed to send message"]
          /\ UNCHANGED net

\* fetchWithTimeout: fetch rejects before the timer fires; the error is rethrown
FetchError ==
  /\ UNCHANGED <<chatVars, swVars, pulse, net, orphaned, historyCall>>
  /\ call.pc = "fetch"
  /\ call' = [call EXCEPT !.timer = ClearTimeout(call.timer), !.pc = "thrown",
                          !.fetch = "failed", !.error = "Failed to fetch"]

\* reader.read() returns the next k tokens of the body
ReadChunk(k) ==
  /\ UNCHANGED <<chatVars, swVars, pulse, orphaned, historyCall>>
  /\ call.pc = "read"
  /\ k \in 1..Len(net.rest)
  /\ call' = ProcessChunk(call, SubSeq(net.rest, 1, k))
  /\ net' = [net EXCEPT !.rest = SubSeq(net.rest, k + 1, Len(net.rest)),
                        !.split = net.split \/ call'.buffer # <<>>]

\* reader.read() returns done: sendMessageToDify returns its result
ReadDone ==
  /\ UNCHANGED <<chatVars, swVars, pulse, net, orphaned, historyCall>>
  /\ call.pc = "read"
  /\ net.rest = <<>>
  /\ call' = [call EXCEPT !.pc = "returned"]

\* reader.read() rejects: the connection broke while the body was read
ReadError ==
  /\ UNCHANGED <<chatVars, swVars, pulse, net, orphaned, historyCall>>
  /\ call.pc = "read"
  /\ call' = [call EXCEPT !.pc = "thrown", !.error = "network error"]

\* handleSendMessage resumes with the value sendMessageToDify returned
DifyReturned ==
  /\ call.pc = "returned"
  /\ SendSuccess(call.answered, call.fullAnswer,
                 IF call.answered THEN call.resultConversationId ELSE "c1")

\* handleSendMessage resumes with the error sendMessageToDify threw
DifyThrown ==
  /\ call.pc = "thrown"
  /\ SendFail(call.error)

\* --------------------------------------------------------- service worker
MaxEvents == 2     \* fetch events handled at the same time

CACHE_NAME == "clara-v3-offline"
OldCacheName == "clara-v2-offline"
CacheNames == {CACHE_NAME, OldCacheName}

\* String.prototype.includes on token sequences
Includes(s, sub) ==
  \E i \in 1..(Len(s) - Len(sub) + 1) : SubSeq(s, i, i + Len(sub) - 1) = sub

ApiMarker == <<"/", "v1", "/">>

CDN_DOMAINS ==
  { <<"aistudiocdn", ".", "com">>,
    <<"esm", ".", "run">>,
    <<"fonts", ".", "googleapis", ".", "com">>,
    <<"fonts", ".", "gstatic", ".", "com">>,
    <<"cdn", ".", "tailwindcss", ".", "com">>,
    <<"cdn-icons-png", ".", "flaticon", ".", "com">> }

\* the requests the page makes: new URL(event.request.url)
Url ==
  [ api    |-> [hostname |-> <<"dify", ".", "thiennn", ".", "icu">>,
                pathname |-> <<"/", "v1", "/", "chat-messages">>],
    cdn    |-> [hostname |-> <<"cdn", ".", "tailwindcss", ".", "com">>,
                pathname |-> <<"/">>],
    cdnApi |-> [hostname |-> <<"fonts", ".", "gstatic", ".", "com">>,
                pathname |-> <<"/", "s", "/", "v1", "/", "font.woff2">>],
    shell  |-> [hostname |-> <<"clara", ".", "app">>,
                pathname |-> <<"/", "index.html">>],
    chunk  |-> [hostname |-> <<"clara", ".", "app">>,
                pathname |-> <<"/", "v1", ".js">>] ]

Urls == DOMAIN Url

\* URLS_TO_CACHE, among the requests above
URLS_TO_CACHE == {"shell", "cdn"}

\* a Response: its status and type; response.ok
Response(status, type) == [status |-> status, type |-> type]
\* variant: only status 200 taken as ok
OkOnly200(r) == r.status = 200
Ok(r) == r.status >= 200 /\ r.status <= 299

NoResponse == Response(0, "none")

Responses ==
  { Response(200, "basic"), Response(200, "cors"), Response(204, "basic"),
    Response(404, "basic") }

\* variant: the marker looked for at the start of the path only
IsApiPrefix(u) ==
  /\ Len(Url[u].pathname) >= Len(ApiMarker)
  /\ SubSeq(Url[u].pathname, 1, Len(ApiMarker)) = ApiMarker

\* variant: the marker without its closing slash
IsApiNoSlash(u) == Includes(Url[u].pathname, <<"/", "v1">>)

\* fetch listener, line 51
IsApi(u) == Includes(Url[u].pathname, ApiMarker)

\* fetch listener, line 56
IsCdn(u) == \E domain \in CDN_DOMAINS : Includes(Url[u].hostname, domain)

\* variant: the CDN test placed before the API test
PolicyCdnFirst(u) ==
  IF IsCdn(u) THEN "swr"
  ELSE IF IsApi(u) THEN "bypass"
  ELSE "cacheFirst"

\* fetch listener: the branch that handles the event
Policy(u) ==
  IF IsApi(u) THEN "bypass"
  ELSE IF IsCdn(u) THEN "swr"
  ELSE "cacheFirst"

\* variant: the response type not tested
CacheableAnyType(r) == r.status = 200

\* fetch listener, app-shell branch: the response is cached
Cacheable(r) == ~(r.status # 200 \/ r.type # "basic")

NoCache == [exists |-> FALSE, entries |-> [u \in Urls |-> NoResponse]]

\* caches.open(name): creates the cache when it is not there
Open(store, name) == [store EXCEPT ![name].exists = TRUE]

\* cache.put on the cache `name`
Put(store, name, u, r) == [Open(store, name) EXCEPT ![name].entries[u] = r]

\* cache.match on the cache `name`
Match(store, name, u) ==
  IF store[name].exists THEN store[name].entries[u] ELSE NoResponse

\* caches.match: the first cache, in creation order, that holds the request
MatchAny(store, u) ==
  IF Match(store, OldCacheName, u) # NoResponse
  THEN Match(store, OldCacheName, u)
  ELSE Match(store, CACHE_NAME, u)

EventIds == 1..MaxEvents

FreeEvent ==
  [pc |-> "free", url |-> "shell", policy |-> "none", responded |-> FALSE,
   cached |-> NoResponse, fetched |-> FALSE, net |-> NoResponse,
   page |-> [kind |-> "none", response |-> NoResponse]]

Page(kind, r) == [kind |-> kind, response |-> r]

\* install listener: the cache is opened and filled with URLS_TO_CACHE, all or
\* nothing; then skipWaiting
Install(ok) ==
  /\ UNCHANGED <<chatVars, callVars, pulse>>
  /\ swState = "parsed"
  /\ IF ok
     THEN /\ cacheStore' =
               [Open(cacheStore, CACHE_NAME) EXCEPT ![CACHE_NAME].entries =
                  [u \in Urls |-> IF u \in URLS_TO_CACHE
                                  THEN Response(200, IF IsCdn(u) THEN "cors" ELSE "basic")
                                  ELSE cacheStore[CACHE_NAME].entries[u]]]
          /\ swState' = "installed"
     ELSE /\ cacheStore' = Open(cacheStore, CACHE_NAME)
          /\ swState' = "redundant"
  /\ UNCHANGED events

\* variant: the caches compared with === instead of !==
ActivateDeletesCurrent ==
  /\ UNCHANGED <<chatVars, callVars, pulse>>
  /\ swState = "installed"
  /\ cacheStore' = [n \in CacheNames |->
                      IF n = CACHE_NAME THEN NoCache ELSE cacheStore[n]]
  /\ swState' = "activated"
  /\ UNCHANGED events

\* activate listener: every cache but CACHE_NAME is deleted; then clients.claim
Activate ==
  /\ UNCHANGED <<chatVars, callVars, pulse>>
  /\ swState = "installed"
  /\ cacheStore' = [n \in CacheNames |->
                      IF n # CACHE_NAME THEN NoCache ELSE cacheStore[n]]
  /\ swState' = "activated"
  /\ UNCHANGED events

\* fetch listener, its synchronous part: the policy is chosen and, unless the
\* request is an API request, respondWith is called
FetchEvent(e, u) ==
  /\ UNCHANGED <<chatVars, callVars, pulse>>
  /\ swState = "activated"
  /\ events[e].pc \in {"free", "done"}
  /\ events' = [events EXCEPT ![e] =
       [FreeEvent EXCEPT
          !.url = u,
          !.policy = Policy(u),
          !.responded = (Policy(u) # "bypass"),
          !.pc = IF Policy(u) = "bypass" THEN "done" ELSE "match",
          !.page = IF Policy(u) = "bypass" THEN Page("none", NoResponse)
                   ELSE Page("pending", NoResponse)]]
  /\ UNCHANGED <<swState, cacheStore>>

\* the cache lookup of the two caching branches returned.
\* CDN branch: the network request is issued whatever the cache holds and the
\* page gets cachedResponse || fetchPromise.
\* App-shell branch: a hit answers the page, a miss goes to the network.
CacheMatch(e) ==
  /\ UNCHANGED <<chatVars, callVars, pulse>>
  /\ events[e].pc = "match"
  /\ LET ev == events[e] IN
     IF ev.policy = "swr"
     THEN LET cachedResponse == Match(Open(cacheStore, CACHE_NAME), CACHE_NAME, ev.url) IN
          /\ cacheStore' = Open(cacheStore, CACHE_NAME)
          /\ events' = [events EXCEPT ![e] =
               [ev EXCEPT !.cached = cachedResponse,
                          !.fetched = TRUE,
                          !.pc = "net",
                          !.page = IF cachedResponse # NoResponse
                                   THEN Page("response", cachedResponse)
                                   ELSE Page("pending", NoResponse)]]
     ELSE LET response == MatchAny(cacheStore, ev.url) IN
          /\ UNCHANGED cacheStore
          /\ events' = [events EXCEPT ![e] =
               IF response # NoResponse
               THEN [ev EXCEPT !.cached = response,
                               !.pc = "done",
                               !.page = Page("response", response)]
               ELSE [ev EXCEPT !.fetched = TRUE, !.pc = "net"]]
  /\ UNCHANGED swState

\* the network answered the request of event e with response r
NetResponse(e, r) ==
  /\ UNCHANGED <<chatVars, callVars, pulse>>
  /\ events[e].pc = "net"
  /\ LET ev == events[e]
         page == IF ev.page.kind = "pending" THEN Page("response", r) ELSE ev.page
     IN /\ cacheStore' =
             IF ev.policy = "swr"
             THEN (IF Ok(r) THEN Put(cacheStore, CACHE_NAME, ev.url, r) ELSE cacheStore)
             ELSE (IF Cacheable(r) THEN Put(cacheStore, CACHE_NAME, ev.url, r)
                   ELSE cacheStore)
        /\ events' = [events EXCEPT ![e] =
             [ev EXCEPT !.net = r, !.pc = "done", !.page = page]]
  /\ UNCHANGED swState

\* the network request of event e failed.
\* CDN branch: the catch logs and fetchPromise resolves to undefined.
\* App-shell branch: the promise given to respondWith rejects.
NetFail(e) ==
  /\ UNCHANGED <<chatVars, callVars, pulse>>
  /\ events[e].pc = "net"
  /\ LET ev == events[e]
         page == IF ev.page.kind = "pending"
                 THEN Page(IF ev.policy = "swr" THEN "undefined" ELSE "rejected",
                           NoResponse)
                 ELSE ev.page
     IN events' = [events EXCEPT ![e] = [ev EXCEPT !.pc = "done", !.page = page]]
  /\ UNCHANGED <<swState, cacheStore>>

\* -------------------------------------------------------- specification
vars == <<chatVars, swVars, callVars, pulse>>

ChatInit ==
  /\ view = "landing"
  /\ messages = <<>>
  /\ inputValue = <<>>
  /\ isLoading = FALSE
  /\ conversationId = Null
  /\ files = <<>>
  /\ localStorage = [m \in Modes |-> EmptyStore]
  /\ now = 0
  /\ initPc = "none"
  /\ send = IdleSend
  /\ uploads = {}
  /\ reloading = FALSE
  /\ lastOp = "other"
  /\ nSends = 0
  /\ call = IdleCall
  /\ net = NoStream
  /\ orphaned = 0
  /\ historyCall = NoHistory
  /\ pulse = IdlePulse

\* the service worker before its install event
SWParsed ==
  /\ swState = "parsed"
  /\ cacheStore = [n \in CacheNames |-> NoCache]
  /\ events = [e \in EventIds |-> FreeEvent]

Init == ChatInit /\ SWParsed

\* the sessions of the research module: mounting, initialisation, sends,
\* clearing, leaving
Next ==
  \/ handleSelectModule("research")
  \/ handleExit
  \/ InitParams
  \/ \E ok \in BOOLEAN, data \in HistoryData : InitHistory(ok, data)
  \/ \E t \in Texts : setInputValue(t)
  \/ \E text \in {inputValue} \cup SuggestedQuestions : handleSendMessage(text)
  \/ \E answered \in BOOLEAN, answer \in Answers,
        srvConv \in (IF send.conv # Null THEN {send.conv} ELSE ConvIds) :
        SendSuccess(answered, answer, srvConv)
  \/ \E e \in ErrorMessages : SendFail(e)
  \/ clearHistory
  \/ Unload
  \/ OrphanSettles
  \/ Tick

Spec == Init /\ [][Next]_vars

\* one mounted session with its pending files, up to the completion of its
\* first send: composing, attaching, uploading, sending
NextFiles ==
  \/ \E m \in Modes : handleSelectModule(m)
  \/ InitParams
  \/ \E t \in Texts : setInputValue(t)
  \/ \E text \in {inputValue} \cup SuggestedQuestions :
       /\ nSends = 0
       /\ handleSendMessage(text)
  \/ \E answered \in BOOLEAN, answer \in Answers,
        srvConv \in (IF send.conv # Null THEN {send.conv} ELSE ConvIds) :
        SendSuccess(answered, answer, srvConv)
  \/ \E e \in ErrorMessages : SendFail(e)
  \/ Tick
  \/ \E type \in FileTypes :
       /\ files = <<>>
       /\ handleFileUpload(type)
  \/ \E u \in uploads, srvId \in ServerFileIds : UploadSuccess(u, srvId)
  \/ \E u \in uploads : UploadFail(u)
  \/ \E i \in 1..Len(files) : removeFile(i)

SpecFiles == Init /\ [][NextFiles]_vars

\* the initialisation of a session, down to the parameters request, and the
\* first send
NextInit ==
  \/ \E m \in Modes : handleSelectModule(m)
  \/ handleExit
  \/ fetchAppParamsResponse
  \/ InitParams
  \/ InitParamsFallback
  \/ InitParamsTimeout
  \/ \E t \in Texts : setInputValue(t)
  \/ \E text \in {inputValue} \cup SuggestedQuestions :
       /\ nSends = 0
       /\ handleSendMessage(text)
  \/ \E e \in ErrorMessages : SendFail(e)
  \/ Tick

SpecInit == Init /\ [][NextInit]_vars

\* the same, with what the runtime guarantees: an armed timer fires.  The
\* network guarantees nothing
SpecInitLive == Init /\ [][NextInit]_vars /\ WF_vars(InitParamsTimeout)

\* the history requests of the Dify client
NextHistory ==
  \E outcome \in HistoryOutcomes, data \in HistoryAnswers : fetchHistory(outcome, data)

SpecHistory == Init /\ [][NextHistory]_vars

\* the pending files of one session: attaching, uploads completing in any
\* order, removing
NextUploads ==
  \/ handleSelectModule("scribe")
  \/ InitParams
  \/ Tick
  \/ \E type \in FileTypes : handleFileUpload(type)
  \/ \E u \in uploads, srvId \in ServerFileIds : UploadSuccess(u, srvId)
  \/ \E u \in uploads : UploadFail(u)
  \/ \E i \in 1..Len(files) : removeFile(i)

SpecUploads == Init /\ [][NextUploads]_vars

\* one session and its first chat request, from the request body to the
\* last chunk of the response stream
NextDify ==
  \/ handleSelectModule("research")
  \/ InitParams
  \/ \E t \in Texts : setInputValue(t)
  \/ \E text \in {inputValue} \cup SuggestedQuestions :
       /\ nSends = 0
       /\ handleSendMessage(text)
  \/ TimerFires
  \/ \E ok \in BOOLEAN, st \in Streams : FetchResponse(ok, st)
  \/ FetchError
  \/ \E k \in 1..Len(net.rest) : ReadChunk(k)
  \/ ReadDone
  \/ ReadError
  \/ DifyReturned
  \/ DifyThrown

SpecDify == Init /\ [][NextDify]_vars

\* the same, with what the runtime guarantees: an armed timer fires, a settled
\* call resumes its caller.  The network guarantees nothing
SpecDifyLive ==
  /\ Init
  /\ [][NextDify]_vars
  /\ WF_vars(TimerFires)
  /\ WF_vars(DifyReturned)
  /\ WF_vars(DifyThrown)

\* the live audio session of the Pulse interface
NextPulse ==
  \/ \E micGranted \in BOOLEAN : startSession(micGranted)
  \/ \E s \in Sessions : onopen(s)
  \/ \E s \in Sessions : onclose(s)
  \/ \E s \in Sessions : onerror(s)
  \/ stopSession
  \/ unmount
  \/ \E k \in Sessions : onaudioprocess(k)

SpecPulse == Init /\ [][NextPulse]_vars

\* the playback and the transcripts of the Pulse interface
NextPlayback ==
  \/ \E micGranted \in BOOLEAN : startSession(micGranted)
  \/ \E s \in Sessions : onopen(s)
  \/ \E s \in Sessions, content \in Messages : onmessage(s, content)
  \/ \E source \in pulse.sources : ended(source)
  \/ endedStopped
  \/ AudioClock
  \/ stopSession
  \/ unmount

SpecPlayback == Init /\ [][NextPlayback]_vars

\* a new service worker version: the cache of the previous version may exist
SWInit ==
  /\ swState = "parsed"
  /\ cacheStore \in
       { [n \in CacheNames |-> NoCache],
         [n \in CacheNames |->
            IF n = OldCacheName
            THEN [exists |-> TRUE,
                  entries |-> [u \in Urls |-> IF u = "shell"
                                              THEN Response(200, "basic")
                                              ELSE NoResponse]]
            ELSE NoCache] }
  /\ events = [e \in EventIds |-> FreeEvent]

\* the service worker: install, activate, and the fetch events of the page
NextSW ==
  \/ \E ok \in BOOLEAN : Install(ok)
  \/ Activate
  \/ \E e \in EventIds, u \in Urls : FetchEvent(e, u)
  \/ \E e \in EventIds : CacheMatch(e)
  \/ \E e \in EventIds, r \in Responses : NetResponse(e, r)
  \/ \E e \in EventIds : NetFail(e)

InitSW ==
  /\ ChatInit
  /\ SWInit

SpecSW == InitSW /\ [][NextSW]_vars

\* ------------------------------------------------------------------ claims
Last(s) == s[Len(s)]

\* C1: an accepted send appends one user entry carrying the submitted text and
\* the pending files, and its success appends one assistant entry carrying the
\* returned answer right after that user entry; every earlier entry stays in
\* place, unchanged.
C1_SendAppendsUserThenAssistant ==
  [][ /\ \A text \in Texts :
           (handleSendMessage(text) /\ ~SendRejected(text)) =>
             /\ Len(messages') = Len(messages) + 1
             /\ SubSeq(messages', 1, Len(messages)) = messages
             /\ Last(messages').role = "user"
             /\ Last(messages').content = text
             /\ Last(messages').files = Defined(files)
      /\ \A answered \in BOOLEAN, answer \in Answers, srvConv \in ConvIds :
           SendSuccess(answered, answer, srvConv) =>
             /\ Len(messages) >= 1
             /\ Last(messages).role = "user"
             /\ Last(messages).content = send.query
             /\ Last(messages).files = Defined(send.files)
             /\ Len(messages') = Len(messages) + 1
             /\ SubSeq(messages', 1, Len(messages)) = messages
             /\ Last(messages').role = "assistant"
             /\ Last(messages').content =
                  DifyResponse(answered, nSends, answer, srvConv, send.conv, now).answer
    ]_vars

\* C1 witness: a send with an attached file succeeded
C1_Witness ==
  /\ lastOp = "SendSuccess"
  /\ Len(messages) >= 3
  /\ messages[Len(messages) - 1].role = "user"
  /\ messages[Len(messages) - 1].files.value # <<>>
  /\ Last(messages).role = "assistant"
  /\ Last(messages).content = <<"ans">>

\* C2: handleSendMessage with a blank text and no pending file changes nothing
\* and sends no request.
C2_BlankSendIsNoOp ==
  [][ \A text \in Texts :
        (handleSendMessage(text) /\ Trim(text) = <<>> /\ Len(files) = 0) =>
          UNCHANGED <<messages, inputValue, files, isLoading, conversationId,
                      send, nSends, localStorage>>
    ]_vars

\* C2 witness: a whitespace-only text was submitted with nothing attached, while
\* no request was in flight
C2_Witness ==
  /\ lastOp = "sendRejected"
  /\ ~isLoading
  /\ files = <<>>
  /\ inputValue = <<" ">>

\* C3: a failed send appends exactly one system entry holding the error text
\* and leaves conversationId alone; unless clearHistory ran during the send,
\* that entry follows the send's user entry and conversationId is the value
\* the send started with.
C3_FailedSendAppendsSystemEntry ==
  [][ \A e \in ErrorMessages :
        SendFail(e) =>
          /\ Len(messages') = Len(messages) + 1
          /\ SubSeq(messages', 1, Len(messages)) = messages
          /\ Last(messages').role = "system"
          /\ Last(messages').content =
               <<"Error: ", IF e = "" THEN "Could not reach Neural Core." ELSE e,
                 " Please retry.">>
          /\ conversationId' = conversationId
          /\ ~reloading =>
               /\ Len(messages) >= 1
               /\ Last(messages).role = "user"
               /\ Last(messages).content = send.query
               /\ conversationId' = send.conv
    ]_vars

\* C3 witness: the second send of a conversation failed
C3_Witness ==
  /\ lastOp = "SendFail"
  /\ ~reloading
  /\ conversationId \in ConvIds
  /\ Len(messages) >= 2
  /\ messages[Len(messages) - 1].role = "user"
  /\ Last(messages).role = "system"

\* C4: from clearHistory until the page is reloaded, the message list is empty,
\* conversationId is null and the mode's two local-storage entries are absent.
C4_ClearHistoryResets ==
  (reloading /\ Mounted) =>
    /\ messages = <<>>
    /\ conversationId = Null
    /\ ~localStorage[view].conv.present
    /\ ~localStorage[view].msgs.present

\* C5: a fetch event whose path contains '/v1/' is left to the browser:
\* respondWith is not called, nothing is looked up, fetched or answered.
C5_ApiRequestsBypass ==
  \A e \in EventIds :
    (events[e].pc # "free" /\ Includes(Url[events[e].url].pathname, <<"/", "v1", "/">>)) =>
      /\ ~events[e].responded
      /\ ~events[e].fetched
      /\ events[e].page.kind = "none"
      /\ events[e].pc = "done"

\* C5 witness: a request with an API path to a CDN host was handled while the
\* cache held entries
C5_Witness ==
  \E e \in EventIds :
    /\ events[e].url = "cdnApi"
    /\ events[e].pc = "done"
    /\ ~events[e].responded
    /\ cacheStore[CACHE_NAME].entries["cdn"] # NoResponse

NoDuplicateIds(msgs) ==
  \A i, j \in 1..Len(msgs) : i # j => msgs[i].id # msgs[j].id

\* C6: no two entries of the message list have the same id.
C6_UniqueMessageIds == NoDuplicateIds(messages)

\* the policy the claim assigns to a request
ExpectedPolicy(u) ==
  IF Includes(Url[u].pathname, <<"/", "v1", "/">>) THEN "bypass"
  ELSE IF \E d \in CDN_DOMAINS : Includes(Url[u].hostname, d) THEN "swr"
  ELSE "cacheFirst"

\* C7: every fetch event is handled by exactly one policy, chosen by priority:
\* bypass for an API path, else stale-while-revalidate for a CDN host, else
\* cache-first; and the event is treated as that policy prescribes.
C7_PolicyByPriority ==
  \A e \in EventIds :
    events[e].pc # "free" =>
      LET ev == events[e] IN
      /\ ev.policy = ExpectedPolicy(ev.url)
      /\ ev.policy = "bypass" => ~ev.responded
      /\ ev.policy = "swr" =>
           (ev.responded /\ (ev.pc \in {"net", "done"} => ev.fetched))
      /\ ev.policy = "cacheFirst" =>
           (ev.responded /\ (ev.cached # NoResponse => ~ev.fetched))

\* C7 witness: a CDN request was revalidated while a same-origin request
\* whose path holds "/v1" without the closing slash was served cache-first
C7_Witness ==
  /\ \E e \in EventIds :
       events[e].url = "cdn" /\ events[e].policy = "swr" /\ events[e].pc = "done"
  /\ \E e \in EventIds :
       events[e].url = "chunk" /\ events[e].policy = "cacheFirst" /\ events[e].pc = "done"

\* C8: a CDN request with a cached response is answered with it, the network
\* request is issued all the same, and the cache entry becomes the network
\* response exactly when that response is ok; it is unchanged otherwise.
C8_StaleWhileRevalidate ==
  [][ \A e \in EventIds :
        LET ev == events[e]
            entry == Match(cacheStore, CACHE_NAME, ev.url)
        IN
        ev.policy = "swr" =>
          /\ (CacheMatch(e) /\ entry # NoResponse) =>
               /\ events'[e].page = Page("response", entry)
               /\ events'[e].fetched
          /\ \A r \in Responses :
               NetResponse(e, r) =>
                 /\ ev.cached # NoResponse => events'[e].page = Page("response", ev.cached)
                 /\ IF r.status \in 200..299
                    THEN Match(cacheStore', CACHE_NAME, ev.url) = r
                    ELSE cacheStore' = cacheStore
          /\ NetFail(e) => cacheStore' = cacheStore
    ]_vars

\* C8 witness: a cached CDN response was served and then replaced by a
\* different ok response from the network
C8_Witness ==
  \E e \in EventIds :
    /\ events[e].policy = "swr"
    /\ events[e].pc = "done"
    /\ events[e].cached # NoResponse
    /\ events[e].page = Page("response", events[e].cached)
    /\ events[e].net # events[e].cached
    /\ cacheStore[CACHE_NAME].entries[events[e].url] = events[e].net

\* C9: for a request that is neither API nor CDN, a cache hit is returned
\* without a network request; on a miss the network response goes to the page
\* and is cached exactly when its status is 200 and its type is 'basic'.
C9_CacheFirst ==
  [][ \A e \in EventIds :
        LET ev == events[e] IN
        ev.policy = "cacheFirst" =>
          /\ CacheMatch(e) =>
               LET hit == MatchAny(cacheStore, ev.url) IN
               IF hit # NoResponse
               THEN /\ events'[e].page = Page("response", hit)
                    /\ ~events'[e].fetched
                    /\ events'[e].pc = "done"
               ELSE events'[e].fetched
          /\ \A r \in Responses :
               NetResponse(e, r) =>
                 /\ events'[e].page = Page("response", r)
                 /\ IF r.status = 200 /\ r.type = "basic"
                    THEN Match(cacheStore', CACHE_NAME, ev.url) = r
                    ELSE cacheStore' = cacheStore
    ]_vars

\* C9 witness: a miss was answered from the network by a 200 cors response,
\* which was not cached
C9_Witness ==
  \E e \in EventIds :
    /\ events[e].policy = "cacheFirst"
    /\ events[e].pc = "done"
    /\ events[e].cached = NoResponse
    /\ events[e].net = Response(200, "cors")
    /\ events[e].page = Page("response", events[e].net)
    /\ cacheStore[CACHE_NAME].entries[events[e].url] = NoResponse

\* C10: resuming a saved conversation, the message list becomes the remote
\* history when that is not empty; otherwise the messages stored in local
\* storage for the mode when the entry exists; otherwise it stays empty.
C10_HistoryThenLocalFallback ==
  [][ \A ok \in BOOLEAN, data \in HistoryData :
        InitHistory(ok, data) =>
          LET history == FetchHistory(ok, data)
              stored == localStorage[view].msgs
          IN messages' = IF history # <<>> THEN history
                         ELSE IF stored.present THEN JSONparse(stored.value)
                         ELSE <<>>
    ]_vars

\* C10 witness: the remote history was empty and the list came from local
\* storage: entries of an earlier session, a sent message among them
C10_Witness ==
  /\ lastOp = "InitHistory"
  /\ Len(messages) >= 2
  /\ messages[1].id = WelcomeId
  /\ messages[2].role = "user"
  /\ messages[2].files = Defined(<<>>)
  /\ messages = JSONparse(localStorage[view].msgs.value)

\* the lines of a body that end with a newline
CompleteLines(st) ==
  IF st.terminated THEN st.lines ELSE SubSeq(st.lines, 1, Len(st.lines) - 1)

\* the answers of the 'message' and 'agent_message' events among lines, in order
RECURSIVE AnswersOf(_)
AnswersOf(lines) ==
  IF lines = <<>> THEN <<>>
  ELSE (IF Head(lines) \in {"msgA", "agentB"} THEN Event[Head(lines)].answer ELSE <<>>)
       \o AnswersOf(Tail(lines))

FetchEnded(c) == c.fetch \notin {"none", "pending"}

\* C11 (as stated): a fetchWithTimeout call ends either with the response or
\* with the timeout error, its timer cancelled.
C11_TwoOutcomesOnly ==
  FetchEnded(call) =>
    /\ call.fetch \in {"response", "timeout"}
    /\ call.timer # "armed"

\* C11 (amended): a fetchWithTimeout call ends in exactly one of three ways:
\* with the response, before the timer fired; with the timeout error, after
\* the timer fired and aborted it; or with fetch's own error, before the timer
\* fired.  After each of them the timer is no longer armed and no abort
\* happens any more.
C11_ThreeOutcomesTimerCancelled ==
  [][ /\ FetchEnded(call') =>
           /\ call'.fetch \in {"response", "timeout", "failed"}
           /\ call'.timer # "armed"
           /\ call'.aborted <=> call'.fetch = "timeout"
           /\ call'.fetch = "timeout" =>
                (call'.pc = "thrown" /\ call'.error = "Request timed out")
      /\ (FetchEnded(call) /\ FetchEnded(call')) =>
           (call'.aborted = call.aborted /\ call'.fetch = call.fetch)
    ]_vars

\* C11 witness: the timer fired on a pending request and the chat showed the
\* timeout error
C11_Witness ==
  /\ call.fetch = "timeout"
  /\ call.aborted
  /\ lastOp = "SendFail"
  /\ Last(messages).content = <<"Error: ", "Request timed out", " Please retry.">>

\* C12 (as stated): the returned answer is the concatenation of the answers of
\* the message events of all 'data: ' lines of the body.
C12_AnswerOfAllLines ==
  call.pc = "returned" => call.fullAnswer = AnswersOf(net.lines)

\* C12 (amended): whatever the chunks, the returned answer is the concatenation,
\* in stream order, of the answers of the 'message' and 'agent_message' events
\* of the 'data: ' lines that end with a newline, each counted once.
C12_AnswerOfCompleteLines ==
  call.pc = "returned" => call.fullAnswer = AnswersOf(CompleteLines(net))

\* C12 witness: a body of two events was read in chunks of which one ended in
\* the middle of a line
C12_Witness ==
  /\ call.pc = "returned"
  /\ net.split
  /\ net.lines = <<"msgA", "agentB">>
  /\ call.fullAnswer = <<"x", "y">>

\* C15: once a send is accepted, isLoading eventually returns to false.
C15_LoadingEnds == (send.pc = "inflight") ~> (~isLoading)

\* C18: a call whose response stream carried an 'error' event does not return:
\* it rejects, so the send ends with a system entry.
C18_ErrorEventRejects ==
  call.pc = "returned" =>
    \A i \in 1..Len(CompleteLines(net)) : CompleteLines(net)[i] # "err"

\* C13: a buffer is passed to sendRealtimeInput only after on-open has stored
\* the session and before on-close, on-error or stopSession has run.
C13_SendOnlyWhileActive ==
  [][ pulse'.sent # pulse.sent => (pulse.stored /\ ~pulse.ended) ]_vars

\* C14: after every step of a mounted session the mode's clara_msgs entry reads
\* back as the current message list when that list is not empty, and its
\* clara_conv entry is the current conversationId when that is not null; an
\* entry that is there stays there in every step but clearHistory.
C14_StorageMirrorsSession ==
  [][ /\ view' \in Modes =>
           /\ messages' # <<>> =>
                /\ localStorage'[view'].msgs.present
                /\ JSONparse(localStorage'[view'].msgs.value) = messages'
           /\ conversationId' # Null =>
                localStorage'[view'].conv = Item(conversationId')
      /\ \A m \in Modes :
           \/ (localStorage[m].conv.present /\ ~localStorage'[m].conv.present)
           \/ (localStorage[m].msgs.present /\ ~localStorage'[m].msgs.present)
           => (clearHistory /\ view = m)
    ]_vars

\* C14 witness: after a successful and a failed send the two entries hold the
\* conversation id and the five messages
C14_Witness ==
  /\ lastOp = "SendFail"
  /\ conversationId \in ConvIds
  /\ Len(messages) = 5
  /\ localStorage[view].conv = Item(conversationId)
  /\ JSONparse(localStorage[view].msgs.value) = messages

\* C16: the activate step deletes every cache whose name is not CACHE_NAME and
\* leaves the CACHE_NAME cache as it is; once activated, no other cache exists.
C16_ActivateKeepsOnlyCurrent ==
  [][ /\ Activate =>
           \A n \in CacheNames :
             IF n = CACHE_NAME
             THEN cacheStore'[n] = cacheStore[n] /\ cacheStore'[n].exists
             ELSE ~cacheStore'[n].exists
      /\ swState' = "activated" =>
           \A n \in CacheNames : cacheStore'[n].exists <=> n = CACHE_NAME
    ]_vars

\* C16 witness: the worker is activated, the cache it filled at install is
\* there and the cache of the previous version is not
C16_Witness ==
  /\ swState = "activated"
  /\ cacheStore[CACHE_NAME].entries["shell"] = Response(200, "basic")
  /\ ~cacheStore[OldCacheName].exists
  /\ \A e \in EventIds : events[e].pc = "free"

\* the chat requests sent and not yet settled
InFlight == orphaned + (IF send.pc = "inflight" THEN 1 ELSE 0)

\* C17: at most one chat request is in flight at any time.
C17_OneRequestInFlight == InFlight <= 1

\* C19: the query of the request body is never blank: it is the user's text
\* when that is not blank, else the default prompt for the attached file types.
C19_QueryNeverBlank ==
  send.pc = "inflight" =>
    LET types == {send.files[i].type : i \in 1..Len(send.files)} IN
    /\ Trim(call.body.query) # <<>>
    /\ IF Trim(send.query) # <<>>
       THEN call.body.query = send.query
       ELSE /\ Len(send.files) >= 1
            /\ call.body.query =
                 IF "image" \in types
                 THEN <<"Please analyze the attached image.">>
                 ELSE IF "audio" \in types
                 THEN <<"Please transcribe and analyze the attached audio.">>
                 ELSE <<"Please analyze the attached document.">>

\* C19 witness: a whitespace-only text was sent with a video attached
C19_Witness ==
  /\ send.pc = "inflight"
  /\ send.query = <<" ">>
  /\ Len(send.files) = 1
  /\ send.files[1].type = "video"
  /\ call.body.query = <<"Please analyze the attached document.">>

\* C20: handleSendMessage changes nothing while some pending file is uploading,
\* and every file of a message and of a request body carries an id the upload
\* endpoint returned.
C20_NoSendWhileUploading ==
  [][ /\ \A text \in Texts :
           (handleSendMessage(text) /\ \E i \in 1..Len(files) : files[i].isUploading) =>
             UNCHANGED <<messages, inputValue, files, isLoading, conversationId,
                         send, call, nSends, localStorage>>
      /\ \A i \in 1..Len(messages') :
           messages'[i].files.defined =>
             \A j \in 1..Len(messages'[i].files.value) :
               /\ messages'[i].files.value[j].id.kind = "file"
               /\ messages'[i].files.value[j].id.n \in ServerFileIds
               /\ ~messages'[i].files.value[j].isUploading
      /\ \A j \in 1..Len(call'.body.files) : call'.body.files[j].kind = "file"
    ]_vars

\* C20 witness: a text was submitted while the attached file was uploading
C20_Witness ==
  /\ lastOp = "sendRejected"
  /\ ~isLoading
  /\ inputValue = <<"a">>
  /\ Len(files) = 1
  /\ files[1].isUploading

\* C21: a failed upload removes exactly one entry of the pending files, the
\* one it added, and leaves the others as they are; a successful upload changes
\* exactly one entry, giving it the server id.
C21_UploadTouchesOwnEntry ==
  [][ /\ (\E u \in uploads : UploadFail(u)) =>
           /\ Len(files') = Len(files) - 1
           /\ \E i \in 1..Len(files) :
                files' = SubSeq(files, 1, i - 1) \o SubSeq(files, i + 1, Len(files))
      /\ (\E u \in uploads, srvId \in ServerFileIds : UploadSuccess(u, srvId)) =>
           /\ Len(files') = Len(files)
           /\ \E i \in 1..Len(files) :
                /\ files[i].isUploading
                /\ files'[i].id.kind = "file"
                /\ \A j \in 1..Len(files) : j # i => files'[j] = files[j]
    ]_vars

\* a step in which handleSendMessage accepted a send
SendAccepted == send.pc = "idle" /\ send'.pc = "inflight"

C23_InitEnds ==
  (initPc = "params" /\ ~localStorage[view].conv.present) ~> (~isLoading)

\* what C23 says of the end of the initialisation, checked apart from its
\* termination: isLoading false and the welcome message alone
C23_InitEndState ==
  [][ (initPc \in {"params", "paramsBody"} /\ initPc' = "done") =>
        /\ ~isLoading'
        /\ Len(messages') = 1
        /\ messages'[1].id = WelcomeId
        /\ messages'[1].role = "assistant"
    ]_vars

\* the k-th item of data counted from the oldest, the last one received
Oldest(data, k) == data[Len(data) + 1 - k]

Answered(item) == item.answer # <<>>

\* where the user entry of the k-th oldest item stands in the returned list
UserPos(data, k) ==
  k + Cardinality({j \in 1..(k - 1) : Answered(Oldest(data, j))})

\* C24: on an OK response fetchHistory returns, for the items taken from the
\* last received to the first, a user entry 'u_<id>' followed at once by an
\* assistant entry 'a_<id>' when the item has an answer and by the next
\* item's entries when it has none, and nothing else; on a non-OK response or
\* an error it returns the empty list.
C24_HistoryOldestFirst ==
  historyCall.called =>
    LET data == historyCall.data
        r == historyCall.result
    IN IF historyCall.outcome = "ok"
       THEN /\ Len(r) = Len(data)
                       + Cardinality({j \in 1..Len(data) : Answered(data[j])})
            /\ \A k \in 1..Len(data) :
                 LET item == Oldest(data, k)
                     i == UserPos(data, k)
                 IN /\ r[i].id = [kind |-> "u", n |-> item.id]
                    /\ r[i].role = "user"
                    /\ r[i].content = item.query
                    /\ Answered(item) =>
                         /\ r[i + 1].id = [kind |-> "a", n |-> item.id]
                         /\ r[i + 1].role = "assistant"
                         /\ r[i + 1].content = item.answer
       ELSE r = <<>>

\* C24 witness: three items were received, the newest first, of which the
\* middle one has no answer
C24_Witness ==
  /\ historyCall.called
  /\ historyCall.outcome = "ok"
  /\ historyCall.data = <<HistoryItem(3, <<"ans">>), HistoryItem(2, <<>>),
                      HistoryItem(1, <<"ans">>)>>
  /\ Len(historyCall.result) = 5
  /\ historyCall.result[1].id = [kind |-> "u", n |-> 1]
  /\ historyCall.result[2].id = [kind |-> "a", n |-> 1]
  /\ historyCall.result[3].id = [kind |-> "u", n |-> 2]
  /\ historyCall.result[4].id = [kind |-> "u", n |-> 3]
  /\ historyCall.result[5].id = [kind |-> "a", n |-> 3]

\* the sessions that were requested and are neither closed nor asked to close
LiveSessions ==
  {s \in Sessions : pulse.conn[s] \in {"connecting", "open"} /\ ~pulse.handed[s]}

\* C25: at any time at most one live audio session exists: a session is
\* requested only when every earlier one is closed or has been asked to close.
C25_OneLiveSession ==
  Cardinality(LiveSessions) <= 1

\* C26: once stopSession has run, and until the next startSession, the session
\* of the preceding startSession is not open, its script processor is
\* disconnected, its audio contexts are closed, the active-session reference
\* is null and isConnected is false.
C26_StopReleasesAll ==
  pulse.stopped =>
    /\ ~pulse.isConnected
    /\ pulse.activeSessionRef = 0
    /\ pulse.sessionRef # 0 =>
         /\ pulse.conn[pulse.sessionRef] # "open"
         /\ pulse.sessionRef \notin pulse.processors
    /\ pulse.contextRef \notin pulse.contexts

\* when a source starts and ends, counted from now on the audio clock
StartsIn(source) == source.start - pulse.currentTime[source.ctx]
EndsIn(source) == source.end - pulse.currentTime[source.ctx]

\* the sources of the set taken in arrival order, each has ended on the audio
\* clock when the next starts; a source on a closed context makes no sound
NoOverlap ==
  \A a, b \in pulse.sources :
    (a.n < b.n /\ a.ctx \in pulse.contexts /\ b.ctx \in pulse.contexts)
      => EndsIn(a) <= StartsIn(b)

\* C27: a chunk is started at the larger of the output time and the cursor,
\* which is the end of the chunk started before it; the cursor decreases only
\* when an interruption is handled; and the chunks not yet ended are played
\* in arrival order, none starting before the one before it has ended.
C27_ChunksInOrderNoOverlap ==
  [][ /\ \A source \in pulse'.sources \ pulse.sources :
           /\ source.start = Max(pulse.nextStartTime,
                                 pulse.currentTime[source.ctx])
           /\ source.end > source.start
      /\ pulse'.nextStartTime < pulse.nextStartTime =>
           \E s \in Sessions, content \in Messages :
             content.interrupted /\ onmessage(s, content)
      /\ NoOverlap' ]_vars

\* C28: when a message with the interrupted flag has been handled, stop() has
\* been called on every source of the set, also on the one the same message
\* brought, the set is empty, the cursor is 0, isTalking is false on the
\* mounted component and both accumulators are empty.
C28_InterruptionClearsPlayback ==
  [][ (pulse'.msgs # pulse.msgs /\ pulse'.interrupted) =>
          /\ pulse'.stopCalls = pulse.stopCalls + Cardinality(pulse.sources)
                                  + (pulse'.made - pulse.made)
          /\ pulse'.sources = {}
          /\ pulse'.nextStartTime = 0
          /\ pulse'.mounted => ~pulse'.isTalking
          /\ pulse'.userAcc = <<>>
          /\ pulse'.modelAcc = <<>> ]_vars

\* C28 witness: two messages were handled on the mounted component, the
\* first brought a chunk, the second a transcription of the user, a chunk and
\* the interrupted flag: both sources were stopped and everything is cleared
C28_Witness ==
  /\ pulse.mounted /\ pulse.isConnected
  /\ pulse.msgs = 2
  /\ pulse.interrupted
  /\ pulse.made = 2
  /\ pulse.stopCalls = 2
  /\ pulse.sources = {}
  /\ pulse.nextStartTime = 0
  /\ ~pulse.isTalking
  /\ pulse.userTranscript # <<>>
  /\ pulse.userAcc = <<>>

\* C29: the transcript of the user and the transcript of the model are never
\* both non-empty.
C29_OneTranscriptShown ==
  pulse.userTranscript = <<>> \/ pulse.modelTranscript = <<>>

\* C29 witness: the user's words were on screen and in the accumulator when a
\* transcription of the model arrived, and the model's words replaced them
C29_Witness ==
  /\ pulse.mounted
  /\ pulse.msgs >= 2
  /\ pulse.userAcc # <<>>
  /\ pulse.userTranscript = <<>>
  /\ pulse.modelTranscript # <<>>

\* C30: no cache holds a response for a request whose path contains '/v1/'.
C30_NoApiResponseCached ==
  \A n \in CacheNames, u \in Urls :
    Includes(Url[u].pathname, <<"/", "v1", "/">>) =>
      cacheStore[n].entries[u] = NoResponse

\* C30 witness: the activated worker has handled an API request and a request
\* to a CDN host with '/v1/' in its path, and has put a script of the
\* application in its cache at run time
C30_Witness ==
  /\ swState = "activated"
  /\ events[1].url = "api" /\ events[1].pc = "done"
  /\ events[2].url = "cdnApi" /\ events[2].pc = "done"
  /\ cacheStore[CACHE_NAME].entries["chunk"] = Response(200, "basic")
  /\ cacheStore[CACHE_NAME].entries["api"] = NoResponse
  /\ cacheStore[CACHE_NAME].entries["cdnApi"] = NoResponse

====
